---- MODULE Spec2Model ----
(***************************************************************************)
(* net-pinger: the multi-host ICMP pinger of src/src/ping.go.              *)
(*                                                                         *)
(* Two goroutines: the round loop (Ping.Run: seq++, sendRequests,          *)
(* gatherResponses, Sleep) and the receiver started by Ping.recv, which    *)
(* reads datagrams and hands echo replies to the round loop over an        *)
(* unbuffered channel.  The per-host fields (isUp, pingsInState, gotReply) *)
(* and the group fields (totalAlive, isTotalAlive) are touched only by the *)
(* round loop.                                                             *)
(*                                                                         *)
(* Besides the program's own state the module keeps history variables      *)
(* (state, run, flapOnly, fresh, lastCmd, out) that record what the        *)
(* program emitted; they never influence the program's variables.          *)
(***************************************************************************)
EXTENDS Integers, Sequences, FiniteSets

\* ------------------------------------------------------------------ bounds
\* Number of rounds explored (Run loops forever).
MaxRounds == 2
\* Cap on pingsInState while replies are accepted (a round may accept any
\* number of replies).
MaxPings == 2
\* Largest value tried for --alive-count / --dead-count (uint8 flags).
MaxCount == 2
\* Largest value tried for --group-alive / --group-dead (uint8 flags).
MaxGroup == 1

\* --------------------------------------------------------- program values
\* p.seq is a uint16: p.seq++ wraps at 2^16.
SeqMod == 65536
\* Number of loop iterations of the single-host Pinger explored.
MaxPingerPings == 5
\* Largest value tried for the single-host Pinger's --fail flag.
MaxFailCount == 3

\* groupAlive is a uint8: uint8(len(p.ips)) wraps at 2^8.
Uint8Mod == 256
\* p.pid, fixed at construction.
Pid == 7
\* Echo identifiers seen on the wire: ours and somebody else's.
EchoIds == {Pid, Pid + 1}
\* Source addresses seen on the wire.
PeerAddrs == {"a", "b"}
\* The address lists given on the command line (pflag.Args()).
IpLists == {<<"a", "b">>, <<"a", "a">>}
\* The zero icmpInfo, received from a closed channel; net.IP(nil).String()
\* is "<nil>".
ZeroInfo == [ip |-> "<nil>", id |-> 0, seq |-> 0]

VARIABLES
    ips,            \* Ping.ips
    aliveCount,     \* Ping.aliveCount
    deadCount,      \* Ping.deadCount
    groupAlive,     \* Ping.groupAlive
    groupDead,      \* Ping.groupDead
    send,           \* Ping.send: ip string -> remoteInfo
    seq,            \* Ping.seq
    totalAlive,     \* Ping.totalAlive
    isTotalAlive,   \* Ping.isTotalAlive
    pc,             \* round loop position: "send", "wait", "eval", "sleep"
    todo,           \* hosts the timeout loop (range p.send) has yet to visit
    rpc,            \* receiver position: "read", "send" (blocked on ch <-), "done"
    held,           \* the icmpInfo the receiver is sending on the channel
    chClosed,       \* close(ch) has been executed
    state,          \* history: per host, "Up" after its last "Remote host is alive",
                    \*          "Down" after its last "Remote host is dead"; "Down" at start
    run,            \* history: per host, kind and length of the current run of
                    \*          consecutive rounds with the same outcome
    flapOnly,       \* history: per host, every run so far was shorter than its threshold
    fresh,          \* history: per host, every outcome since its last event had the
                    \*          event's direction
    lastCmd,        \* history: the last command given to runCommand
    out,            \* history: what the last step did when it handled a reply or a
                    \*          timed-out host (log lines, command run)
    sawAliveLevel,  \* history: totalAlive >= groupAlive has held at some point
    failed,         \* history: the hosts whose WriteTo failed in the current round
    credited,       \* history: the hosts for which a reply was processed in the
                    \*          current round
    pinger,         \* the single-host Pinger of src/unnamed/part_000 (a separate
                    \* program): its fields and what its last loop iteration ran
    since           \* history: "never" while the verdict has never been Alive; after
                    \*          the latest flip to Alive, "low" once totalAlive <= groupDead
                    \*          has held, "alive" until then

cfgVars == <<ips, aliveCount, deadCount, groupAlive, groupDead>>
progVars == <<send, seq, totalAlive, isTotalAlive, pc, todo>>
recvVars == <<rpc, held, chClosed>>
verdictHist == <<sawAliveLevel, since>>
roundHist == <<failed, credited>>
histVars == <<state, run, flapOnly, fresh, lastCmd, out, verdictHist, roundHist>>
vars == <<cfgVars, progVars, recvVars, histVars, pinger>>

Hosts == DOMAIN send

\* The single-host Pinger while it is not running.
NoPinger == [failCount |-> 0, seq |-> 0, remoteAlive |-> FALSE, fails |-> 0,
             streak |-> 0, act |-> "off"]

NoOut == [kind |-> "none", host |-> "-", ev |-> "none", cmd |-> "none", msg |-> ZeroInfo]

\* ------------------------------------------------------------ construction
\* ping.go:62-71: one remoteInfo per distinct ip string.
NewSend(list) ==
    [h \in {list[k] : k \in 1..Len(list)} |->
        [isUp |-> FALSE, pingsInState |-> 0, gotReply |-> FALSE]]

\* ping.go:73-75: an unset group-alive becomes uint8(len(p.ips)).
DefaultGroupAlive(flag, list) ==
    IF flag = 0 THEN Len(list) % Uint8Mod ELSE flag

Init ==
    /\ ips \in IpLists
    /\ aliveCount \in 0..MaxCount
    /\ deadCount \in 0..MaxCount
    /\ \E flag \in 0..MaxGroup : groupAlive = DefaultGroupAlive(flag, ips)
    /\ groupDead \in 0..(MaxGroup - 1)
    /\ send = NewSend(ips)
    /\ seq = 0
    /\ totalAlive = 0
    /\ isTotalAlive = FALSE
    /\ pc = "send"
    /\ todo = {}
    /\ rpc = "read"
    /\ held = ZeroInfo
    /\ chClosed = FALSE
    /\ state = [h \in DOMAIN NewSend(ips) |-> "Down"]
    /\ run = [h \in DOMAIN NewSend(ips) |-> [kind |-> "None", len |-> 0]]
    /\ flapOnly = [h \in DOMAIN NewSend(ips) |-> TRUE]
    /\ fresh = [h \in DOMAIN NewSend(ips) |-> FALSE]
    /\ lastCmd = "none"
    /\ out = NoOut
    /\ sawAliveLevel = (0 >= groupAlive)
    /\ since = "never"
    /\ failed = {}
    /\ credited = {}
    /\ pinger = NoPinger

\* ------------------------------------------------------- group aggregation
\* Variant of the test of ping.go:177 with a strict comparison.
GroupAliveFlips_Strict(alive, total) == ~alive /\ total > groupAlive

\* ping.go:177
GroupAliveFlips(alive, total) == ~alive /\ total >= groupAlive

\* Variant of the test of ping.go:186 without the isTotalAlive guard.
GroupDeadFlips_Unguarded(alive, total) == total <= groupDead

\* Variant of the test of ping.go:186 without the threshold comparison.
GroupDeadFlips_NoThreshold(alive, total) == alive

\* ping.go:186
GroupDeadFlips(alive, total) == alive /\ total <= groupDead

\* ping.go:175-182
handleHostAlive(total, alive) ==
    IF GroupAliveFlips(alive, total + 1)
    THEN [total |-> total + 1, alive |-> TRUE, cmd |-> "alive"]
    ELSE [total |-> total + 1, alive |-> alive, cmd |-> "none"]

\* ping.go:184-191
handleHostDead(total, alive) ==
    IF GroupDeadFlips(alive, total - 1)
    THEN [total |-> total - 1, alive |-> FALSE, cmd |-> "dead"]
    ELSE [total |-> total - 1, alive |-> alive, cmd |-> "none"]

\* No host event: the group is left alone.
noHostEvent(total, alive) == [total |-> total, alive |-> alive, cmd |-> "none"]

\* --------------------------------------------------------- per-host update
\* Variant of the filter of ping.go:153 without the sequence-number test.
Accepted_AnySeq(i) == i.ip \in Hosts /\ i.id = Pid

\* ping.go:153: the reply filter.
Accepted(i) == i.ip \in Hosts /\ i.id = Pid /\ i.seq = seq

\* ping.go:157-163
OnReply(v) ==
    IF ~v.isUp
    THEN [isUp |-> TRUE, pingsInState |-> 1, gotReply |-> TRUE]
    ELSE [isUp |-> TRUE, pingsInState |-> v.pingsInState + 1, gotReply |-> TRUE]

\* ping.go:134-139
OnTimeout(v) ==
    IF v.isUp
    THEN [isUp |-> FALSE, pingsInState |-> 1, gotReply |-> v.gotReply]
    ELSE [isUp |-> FALSE, pingsInState |-> v.pingsInState + 1, gotReply |-> v.gotReply]

\* Variant of the test of ping.go:167 that fires at or above the threshold.
HostAliveFires_AtLeast(v) == v.pingsInState >= aliveCount

\* Variant of the test of ping.go:133 that times every host out.
TimesOut_Always(v) == TRUE

\* ping.go:133: the timeout loop skips a host that got a reply this round.
TimesOut(v) == ~v.gotReply

\* ping.go:167
HostAliveFires(v) == v.pingsInState = aliveCount

\* ping.go:142
HostDeadFires(v) == v.pingsInState = deadCount

\* ----------------------------------------------------------------- history
\* The run of consecutive same-outcome rounds after one more round of `kind`.
NextRun(r, kind) ==
    IF r.kind = kind THEN [kind |-> kind, len |-> r.len + 1]
                     ELSE [kind |-> kind, len |-> 1]

Threshold(kind) == IF kind = "Replied" THEN aliveCount ELSE deadCount

\* History update for host h whose round outcome may have become `r2`, with
\* event ev ("up", "down" or "none") emitted in the same step.
Record(h, r2, ev, g) ==
    /\ run' = [run EXCEPT ![h] = r2]
    /\ flapOnly' = [flapOnly EXCEPT ![h] = @ /\ r2.len < Threshold(r2.kind)]
    /\ state' = [state EXCEPT ![h] =
                    IF ev = "up" THEN "Up" ELSE IF ev = "down" THEN "Down" ELSE @]
    /\ fresh' = [fresh EXCEPT ![h] =
                    IF ev # "none" THEN TRUE
                    ELSE IF r2.kind # run[h].kind THEN FALSE ELSE @]
    /\ lastCmd' = IF g.cmd # "none" THEN g.cmd ELSE lastCmd
    /\ sawAliveLevel' = (sawAliveLevel \/ g.total >= groupAlive)
    /\ since' = IF ~isTotalAlive /\ g.alive
                THEN (IF g.total <= groupDead THEN "low" ELSE "alive")
                ELSE IF since # "never" /\ g.total <= groupDead THEN "low" ELSE since

\* ---------------------------------------------------------- the round loop
\* The exploration bound on rounds: MaxRounds rounds from seq = 0, one more
\* from the last sequence number before the wrap.
RoundsLeft == seq < MaxRounds \/ seq = SeqMod - 1

\* Variant of ping.go:116-121 in which a failed write makes sendRequests
\* return the error, so that Run returns.
AfterSend_Abort(f) == IF f # {} THEN "returned" ELSE "wait"

\* ping.go:116-121 and 90-94: where Run goes after sendRequests when the
\* writes to the hosts of f failed: the error is logged, sendRequests returns
\* nil and Run calls gatherResponses.
AfterSend(f) == "wait"

\* ping.go:88-94 with sendRequests (ping.go:100-122): p.seq++, every host's
\* gotReply is cleared and a request is written to it; a failed write is
\* logged and skipped.  (Marshal of an Echo message does not fail.)
StartRound ==
    /\ pc = "send"
    /\ RoundsLeft
    /\ seq' = (seq + 1) % SeqMod
    /\ send' = [h \in Hosts |-> [send[h] EXCEPT !.gotReply = FALSE]]
    /\ \E f \in SUBSET Hosts :
          /\ failed' = f
          /\ pc' = AfterSend(f)
    /\ credited' = {}
    /\ out' = NoOut
    /\ UNCHANGED <<pinger, cfgVars, totalAlive, isTotalAlive, todo, recvVars,
                   state, run, flapOnly, fresh, lastCmd, verdictHist>>

\* Variant of the receive of ping.go:150-155 that also takes from the channel
\* while Run sleeps.
GatherDrop_AlsoAsleep ==
    /\ pc \in {"wait", "sleep"}
    /\ rpc = "send"
    /\ ~Accepted(held)
    /\ rpc' = "read"
    /\ held' = ZeroInfo
    /\ out' = [NoOut EXCEPT !.kind = "drop", !.msg = held]
    /\ UNCHANGED <<pinger, cfgVars, progVars, chClosed, state, run, flapOnly, fresh, lastCmd,
                   verdictHist, roundHist>>

\* ping.go:150-155: select takes an icmpInfo from the channel and the filter
\* rejects it.
GatherDrop ==
    /\ pc = "wait"
    /\ rpc = "send"
    /\ ~Accepted(held)
    /\ rpc' = "read"
    /\ held' = ZeroInfo
    /\ out' = [NoOut EXCEPT !.kind = "drop", !.msg = held]
    /\ UNCHANGED <<pinger, cfgVars, progVars, chClosed, state, run, flapOnly, fresh, lastCmd, verdictHist, roundHist>>

\* ping.go:150-170: select takes an icmpInfo that passes the filter.
GatherReply ==
    /\ pc = "wait"
    /\ rpc = "send"
    /\ Accepted(held)
    /\ OnReply(send[held.ip]).pingsInState <= MaxPings
    /\ LET h  == held.ip
           v  == OnReply(send[h])
           ev == IF HostAliveFires(v) THEN "up" ELSE "none"
           g  == IF HostAliveFires(v) THEN handleHostAlive(totalAlive, isTotalAlive)
                                      ELSE noHostEvent(totalAlive, isTotalAlive)
           r2 == IF send[h].gotReply THEN run[h] ELSE NextRun(run[h], "Replied")
       IN /\ send' = [send EXCEPT ![h] = v]
          /\ totalAlive' = g.total
          /\ isTotalAlive' = g.alive
          /\ out' = [kind |-> "reply", host |-> h, ev |-> ev, cmd |-> g.cmd, msg |-> held]
          /\ Record(h, r2, ev, g)
          /\ credited' = credited \cup {h}
    /\ rpc' = "read"
    /\ held' = ZeroInfo
    /\ UNCHANGED <<pinger, cfgVars, seq, pc, todo, chClosed, failed>>

\* ping.go:150-155 on a closed channel: the receive yields the zero icmpInfo
\* at once, its address is no key of p.send, the loop continues.
GatherClosed ==
    /\ pc = "wait"
    /\ chClosed
    /\ ~Accepted(ZeroInfo)
    /\ out' = NoOut
    /\ UNCHANGED <<pinger, cfgVars, progVars, recvVars, state, run, flapOnly, fresh, lastCmd, verdictHist, roundHist>>

\* Variant of the select of ping.go:129-132 that takes the timer case only
\* when the channel has nothing to deliver.
TimerFired_ChannelFirst ==
    /\ pc = "wait"
    /\ rpc # "send" /\ ~chClosed
    /\ pc' = "eval"
    /\ todo' = Hosts
    /\ out' = NoOut
    /\ UNCHANGED <<pinger, cfgVars, send, seq, totalAlive, isTotalAlive, recvVars,
                   state, run, flapOnly, fresh, lastCmd, verdictHist, roundHist>>

\* ping.go:130-132: the timer fires; the loop over p.send begins.
TimerFired ==
    /\ pc = "wait"
    /\ pc' = "eval"
    /\ todo' = Hosts
    /\ out' = NoOut
    /\ UNCHANGED <<pinger, cfgVars, send, seq, totalAlive, isTotalAlive, recvVars,
                   state, run, flapOnly, fresh, lastCmd, verdictHist, roundHist>>

\* ping.go:132-148: one iteration of the loop over p.send (Go visits the map
\* in an unspecified order); after the last one gatherResponses returns.
EvalHost(h) ==
    /\ pc = "eval"
    /\ h \in todo
    /\ todo' = todo \ {h}
    /\ pc' = IF todo' = {} THEN "sleep" ELSE "eval"
    /\ failed' = IF todo' = {} THEN {} ELSE failed
    /\ IF TimesOut(send[h])
       THEN LET v  == OnTimeout(send[h])
                ev == IF HostDeadFires(v) THEN "down" ELSE "none"
                g  == IF HostDeadFires(v) THEN handleHostDead(totalAlive, isTotalAlive)
                                          ELSE noHostEvent(totalAlive, isTotalAlive)
            IN /\ send' = [send EXCEPT ![h] = v]
               /\ totalAlive' = g.total
               /\ isTotalAlive' = g.alive
               /\ out' = [kind |-> "timeout", host |-> h, ev |-> ev, cmd |-> g.cmd,
                          msg |-> ZeroInfo]
               /\ Record(h, NextRun(run[h], "TimedOut"), ev, g)
       ELSE /\ out' = NoOut
            /\ UNCHANGED <<send, totalAlive, isTotalAlive,
                           state, run, flapOnly, fresh, lastCmd, verdictHist>>
    /\ UNCHANGED <<pinger, cfgVars, seq, recvVars, credited>>

\* ping.go:96: time.Sleep(p.pauseDuration), then the next iteration.
Sleep ==
    /\ pc = "sleep"
    /\ pc' = "send"
    /\ out' = NoOut
    /\ UNCHANGED <<pinger, cfgVars, send, seq, totalAlive, isTotalAlive, todo, recvVars,
                   state, run, flapOnly, fresh, lastCmd, verdictHist, roundHist>>

\* ------------------------------------------------------------ the receiver
\* The datagrams ReadFrom may return as echo replies: from any peer, either
\* with our identifier and the current or the previous sequence number, or
\* with another identifier.
Datagrams ==
    [ip : PeerAddrs, id : {Pid}, seq : {seq, (seq + SeqMod - 1) % SeqMod}]
        \cup [ip : PeerAddrs, id : EchoIds \ {Pid}, seq : {seq}]

\* ping.go:216-252: a datagram is read and decoded as an echo reply; the
\* receiver then blocks on `ch <-` until the round loop receives.
RecvRead ==
    /\ rpc = "read"
    /\ \E i \in Datagrams : held' = i
    /\ rpc' = "send"
    /\ out' = NoOut
    /\ UNCHANGED <<pinger, cfgVars, progVars, chClosed, state, run, flapOnly, fresh, lastCmd, verdictHist, roundHist>>

\* ping.go:222-225: a zero-length read closes the channel and ends the
\* goroutine.
RecvZero ==
    /\ rpc = "read"
    /\ chClosed' = TRUE
    /\ rpc' = "done"
    /\ out' = NoOut
    /\ UNCHANGED <<pinger, cfgVars, progVars, held, state, run, flapOnly, fresh, lastCmd, verdictHist, roundHist>>

Next ==
    \/ StartRound
    \/ GatherDrop
    \/ GatherReply
    \/ GatherClosed
    \/ TimerFired
    \/ \E h \in Hosts : EvalHost(h)
    \/ Sleep
    \/ RecvRead
    \/ RecvZero

Spec == Init /\ [][Next]_vars

\* ------------------------------------------------------- the fair round loop
\* The state of a one-host engine whose host has stayed silent for the
\* first SeqMod - 1 rounds: every round timed it out, so pingsInState counts
\* them all, "Remote host is dead" was logged in round deadCount (if
\* deadCount >= 1) and handleHostDead took totalAlive below zero; Run is
\* about to start the round in which p.seq wraps to 0.
LiveInit ==
    /\ ips = <<"a">>
    /\ aliveCount = 1
    /\ deadCount \in 0..MaxCount
    /\ groupAlive = DefaultGroupAlive(0, ips)
    /\ groupDead = 0
    /\ send = [h \in DOMAIN NewSend(ips) |->
                [isUp |-> FALSE, pingsInState |-> SeqMod - 1, gotReply |-> FALSE]]
    /\ seq = SeqMod - 1
    /\ totalAlive = IF deadCount >= 1 THEN 0 - Cardinality(DOMAIN NewSend(ips)) ELSE 0
    /\ isTotalAlive = FALSE
    /\ pc = "send"
    /\ todo = {}
    /\ rpc = "read"
    /\ held = ZeroInfo
    /\ chClosed = FALSE
    /\ state = [h \in DOMAIN NewSend(ips) |-> "Down"]
    /\ run = [h \in DOMAIN NewSend(ips) |-> [kind |-> "TimedOut", len |-> SeqMod - 1]]
    /\ flapOnly = [h \in DOMAIN NewSend(ips) |-> FALSE]
    /\ fresh = [h \in DOMAIN NewSend(ips) |-> deadCount >= 1]
    /\ lastCmd = "none"
    /\ out = NoOut
    /\ sawAliveLevel = FALSE
    /\ since = "never"
    /\ failed = {}
    /\ credited = {}
    /\ pinger = NoPinger

\* The round loop is one goroutine that is always runnable; a select with
\* several ready cases chooses among them at random, so the timer case,
\* which stays ready once the timer has fired, is eventually chosen.
Fairness ==
    /\ WF_vars(StartRound)
    /\ WF_vars(TimerFired)
    /\ WF_vars(\E h \in Hosts : EvalHost(h))
    /\ WF_vars(Sleep)

LiveSpec == LiveInit /\ [][Next]_vars /\ Fairness

\* --------------------------------------------------- the single-host Pinger
\* part_000:35-48: NewPinger; fails, seq and remoteAlive start at their zero
\* values.  streak (history) counts the failed pings since the last
\* successful one; act is what the last loop iteration ran.
NewPinger(failCount) ==
    [failCount |-> failCount, seq |-> 0, remoteAlive |-> FALSE, fails |-> 0,
     streak |-> 0, act |-> "none"]

\* part_000:117-123: Ping returned an error.
OnPingError(p) ==
    IF p.fails + 1 = p.failCount
    THEN [p EXCEPT !.fails = @ + 1, !.remoteAlive = FALSE, !.act = "bad"]
    ELSE [p EXCEPT !.fails = @ + 1, !.act = "none"]

\* part_000:124-131: Ping returned nil.
OnPingSuccess(p) ==
    IF ~p.remoteAlive
    THEN [p EXCEPT !.fails = 0, !.remoteAlive = TRUE, !.act = "good"]
    ELSE [p EXCEPT !.act = "none"]

\* part_000:115-135 with Ping (part_000:50-102): one iteration of Run; Ping
\* increments seq and succeeds or fails.
PingerRun(ok) ==
    /\ pinger.act # "off"
    /\ pinger.seq < MaxPingerPings
    /\ LET p == [pinger EXCEPT !.seq = @ + 1,
                               !.streak = IF ok THEN 0 ELSE @ + 1]
       IN pinger' = IF ok THEN OnPingSuccess(p) ELSE OnPingError(p)
    /\ UNCHANGED <<cfgVars, progVars, recvVars, histVars>>

\* The multi-host engine as constructed, not run, beside the Pinger.
PingerInit ==
    /\ \E fc \in 0..MaxFailCount : pinger = NewPinger(fc)
    /\ ips = <<"a">>
    /\ aliveCount = 1
    /\ deadCount = 1
    /\ groupAlive = DefaultGroupAlive(0, ips)
    /\ groupDead = 0
    /\ send = NewSend(ips)
    /\ seq = 0
    /\ totalAlive = 0
    /\ isTotalAlive = FALSE
    /\ pc = "send"
    /\ todo = {}
    /\ rpc = "read"
    /\ held = ZeroInfo
    /\ chClosed = FALSE
    /\ state = [h \in DOMAIN NewSend(ips) |-> "Down"]
    /\ run = [h \in DOMAIN NewSend(ips) |-> [kind |-> "None", len |-> 0]]
    /\ flapOnly = [h \in DOMAIN NewSend(ips) |-> TRUE]
    /\ fresh = [h \in DOMAIN NewSend(ips) |-> FALSE]
    /\ lastCmd = "none"
    /\ out = NoOut
    /\ sawAliveLevel = FALSE
    /\ since = "never"
    /\ failed = {}
    /\ credited = {}

PingerNext == \E ok \in BOOLEAN : PingerRun(ok)

PingerSpec == PingerInit /\ [][PingerNext]_vars

\* -------------------------------------------------------------- type check
TypeOK ==
    /\ pc \in {"send", "wait", "eval", "sleep"}
    /\ rpc \in {"read", "send", "done"}
    /\ todo \subseteq Hosts
    /\ seq \in 0..(SeqMod - 1)
    /\ \A h \in Hosts : send[h].pingsInState \in Nat
\* ================================================================== claims
UpHosts == {h \in Hosts : state[h] = "Up"}

\* C1: the group counter stays within 0 .. number of monitored hosts.
C1_UpCountInRange ==
    0 <= totalAlive /\ totalAlive <= Cardinality(Hosts)

\* C2: the group counter is exactly the number of hosts whose debounced
\* state (Up from the last "alive" event to the next "dead" event) is Up.
C2_UpCountIsUpHosts ==
    totalAlive = Cardinality(UpHosts)

\* The default group thresholds: every host must be up, none for dead.
DefaultThresholds == groupAlive = Cardinality(Hosts) /\ groupDead = 0

\* C3: with the default group thresholds the verdict is Alive whenever all
\* hosts are Up, Dead whenever none is, and an Alive verdict survives every
\* step that leaves at least one host Up.
C3_DefaultVerdict ==
    /\ [](DefaultThresholds =>
            /\ (UpHosts = Hosts => isTotalAlive)
            /\ (UpHosts = {} => ~isTotalAlive))
    /\ [][DefaultThresholds /\ isTotalAlive /\ {h \in Hosts : state'[h] = "Up"} # {}
            => isTotalAlive']_vars

\* C4: a host's "alive" event is emitted only in the round that completes
\* exactly aliveCount consecutive Replied rounds, and its "dead" event only
\* in the round that completes exactly deadCount consecutive TimedOut rounds.
C4_EventAtThreshold ==
    [][/\ out'.ev = "up" =>
            run'[out'.host] = [kind |-> "Replied", len |-> aliveCount]
       /\ out'.ev = "down" =>
            run'[out'.host] = [kind |-> "TimedOut", len |-> deadCount]]_vars

\* C5: "alive" is emitted only for a host that is Down and "dead" only for a
\* host that is Up, so a host's events alternate, beginning with "alive".
C5_EventsAlternate ==
    [][/\ out'.ev = "up" => state[out'.host] = "Down"
       /\ out'.ev = "down" => state[out'.host] = "Up"]_vars

\* C6: once a host has become Up, further consecutive replies emit no second
\* "alive" event and leave the group counter alone; likewise for a host that
\* has become Down and further consecutive timeouts.
C6_Idempotent ==
    [][\A h \in Hosts :
        /\ (fresh[h] /\ state[h] = "Up" /\ out'.kind = "reply" /\ out'.host = h)
              => (out'.ev = "none" /\ totalAlive' = totalAlive)
        /\ (fresh[h] /\ state[h] = "Down" /\ out'.kind = "timeout" /\ out'.host = h)
              => (out'.ev = "none" /\ totalAlive' = totalAlive)]_vars

\* C6 witness: a host that became Up has answered a further round without
\* any event.
C6_Witness ==
    \E h \in Hosts :
        /\ fresh[h] /\ state[h] = "Up"
        /\ out.kind = "reply" /\ out.host = h /\ out.ev = "none"
        /\ run[h].kind = "Replied" /\ run[h].len > aliveCount

\* C7: a host all of whose runs of same-outcome rounds stayed below the
\* thresholds emits no event and changes neither the group counter nor the
\* verdict.
C7_FlapsNeverTransition ==
    [][\A h \in Hosts :
        (flapOnly'[h] /\ out'.host = h)
            => (out'.ev = "none" /\ totalAlive' = totalAlive
                                 /\ isTotalAlive' = isTotalAlive)]_vars

\* C8: the verdict goes Dead -> Alive exactly on an "alive" event processed
\* while Dead with the incremented counter >= groupAlive, and Alive -> Dead
\* exactly on a "dead" event processed while Alive with the decremented
\* counter <= groupDead.
C8_VerdictFlips ==
    [][/\ (~isTotalAlive /\ isTotalAlive')
            <=> (out'.ev = "up" /\ ~isTotalAlive /\ totalAlive + 1 >= groupAlive)
       /\ (isTotalAlive /\ ~isTotalAlive')
            <=> (out'.ev = "down" /\ isTotalAlive /\ totalAlive - 1 <= groupDead)
       /\ out'.ev = "up" => totalAlive' = totalAlive + 1
       /\ out'.ev = "down" => totalAlive' = totalAlive - 1
       /\ (isTotalAlive /\ totalAlive' > groupDead) => isTotalAlive']_vars

\* C8 witness: the verdict has gone Alive and has just flipped back to Dead
\* on a "dead" event.
C8_Witness ==
    /\ out.ev = "down" /\ out.cmd = "dead"
    /\ ~isTotalAlive /\ totalAlive <= groupDead

\* C9: the alive command runs exactly at the flips to Alive and the dead
\* command exactly at the flips to Dead, so the commands alternate, the
\* alive command first.
C9_CommandsAlternate ==
    [][/\ out'.cmd = "alive" <=> (~isTotalAlive /\ isTotalAlive')
       /\ out'.cmd = "dead" <=> (isTotalAlive /\ ~isTotalAlive')
       /\ out'.cmd = "alive" => lastCmd \in {"none", "dead"}
       /\ out'.cmd = "dead" => lastCmd = "alive"
       /\ out'.cmd # "none" => lastCmd' = out'.cmd]_vars

\* C9 witness: the dead command has just run, as the last command so far,
\* after the verdict had been Alive.
C9_Witness ==
    out.cmd = "dead" /\ lastCmd = "dead" /\ state[out.host] = "Down"

\* C10: a reply taken from the channel whose address is not monitored, or
\* whose identifier or sequence number is not the current one, changes no
\* host and no group state.
C10_MismatchDropped ==
    [][(/\ pc = "wait" /\ rpc = "send" /\ rpc' = "read"
        /\ (held.ip \notin Hosts \/ held.id # Pid \/ held.seq # seq))
            => UNCHANGED <<send, totalAlive, isTotalAlive, state, run>>]_vars

\* C10 witness: a reply of a monitored host with our identifier and the
\* previous round's sequence number has just been dropped.
C10_Witness ==
    /\ out.kind = "drop"
    /\ out.msg.ip \in Hosts /\ out.msg.id = Pid
    /\ seq >= 2 /\ out.msg.seq = seq - 1
    /\ pc = "wait"
\* C11: an Alive verdict implies that totalAlive >= groupAlive held at some
\* point; a Dead verdict implies that the verdict was never Alive or that
\* totalAlive <= groupDead held at some point after the latest flip to Alive.
C11_VerdictHistory ==
    /\ isTotalAlive => sawAliveLevel
    /\ ~isTotalAlive => since \in {"never", "low"}

\* C11 witness: the verdict is Dead again after having been Alive.
C11_Witness ==
    ~isTotalAlive /\ since = "low" /\ sawAliveLevel /\ lastCmd = "dead"
\* C12: a zero per-host threshold is rejected at construction, so an engine
\* that has started a round has aliveCount >= 1 and deadCount >= 1.
C12_ZeroRejected ==
    seq >= 1 => (aliveCount >= 1 /\ deadCount >= 1)
\* C13: a failed write to one host aborts neither the round nor Run: every
\* host is still visited by sendRequests, the wait and evaluation phases
\* follow, and a host whose write failed is evaluated like any other (timed
\* out unless a reply was processed for it).
C13_SendFailureTolerated ==
    /\ [](pc # "returned")
    /\ [][/\ (pc = "send" /\ pc' # "send")
               => (pc' = "wait" /\ \A h \in Hosts : ~send'[h].gotReply)
          /\ (pc = "wait" /\ pc' = "eval") => todo' = Hosts
          /\ \A h \in Hosts :
               (pc = "eval" /\ h \in failed /\ h \in todo /\ h \notin todo')
                   => IF h \in credited
                      THEN out' = NoOut /\ send'[h] = send[h]
                      ELSE /\ out'.kind = "timeout" /\ out'.host = h
                           /\ send'[h] = OnTimeout(send[h])]_vars

\* C13 witness: a host whose write failed has just been timed out while
\* another host of the same round is still to be evaluated.
C13_Witness ==
    /\ pc = "eval" /\ todo # {}
    /\ out.kind = "timeout" /\ out.host \in failed

\* C14: a host is fed one outcome per round: a further accepted reply for a
\* host already credited in this round leaves its pingsInState alone, and a
\* credited host is not timed out.
C14_OneOutcomePerRound ==
    [][/\ (out'.kind = "reply" /\ out'.host \in credited)
            => send'[out'.host].pingsInState = send[out'.host].pingsInState
       /\ out'.kind = "timeout" => out'.host \notin credited]_vars

\* C15: replies are processed only before the deadline branch of their round
\* is taken, timeouts only after it; once it is taken no reply is processed,
\* and exactly the hosts without a processed reply are timed out.
C15_RepliesBeforeTimeouts ==
    [][/\ out'.kind = "reply" => (pc = "wait" /\ pc' = "wait")
       /\ out'.kind = "timeout" => pc = "eval"
       /\ pc = "eval" => credited' = credited
       /\ (pc = "wait" /\ pc' = "eval") => todo' = Hosts
       /\ \A h \in Hosts :
            (pc = "eval" /\ h \in todo /\ h \notin todo')
                => ((out'.kind = "timeout" /\ out'.host = h) <=> h \notin credited)]_vars

\* C15 witness: in a round where one host was credited with a reply, the
\* other host has just been timed out.
C15_Witness ==
    /\ out.kind = "timeout" /\ out.host \notin credited
    /\ credited # {} /\ pc \in {"eval", "sleep"}
SeqWindow == {SeqMod - 1} \cup 0..MaxRounds

\* C17: every round ends (the deadline branch is taken and the hosts are
\* evaluated, whatever the channel delivers meanwhile), and Run then sleeps
\* and starts the next round with the sequence number incremented modulo
\* 2^16.
C17_RoundProgress ==
    \A n \in SeqWindow :
        /\ (pc = "wait" /\ seq = n) ~> (pc = "sleep" /\ seq = n)
        /\ (pc \in {"sleep", "send"} /\ seq = n /\ RoundsLeft)
                ~> (pc = "wait" /\ seq = (n + 1) % SeqMod)

\* C17 witness: past the wrap of the sequence number a round has ended and
\* the next one is waiting for its deadline while the receiver has a reply
\* ready.
C17_Witness ==
    pc = "wait" /\ seq = 1 /\ rpc = "send" /\ ips = <<"a">>
\* C18: an unset group-alive makes groupAlive the number of entries of the
\* host table p.send.
C18_DefaultIsHostCount ==
    groupAlive = DefaultGroupAlive(0, ips) => groupAlive = Cardinality(Hosts)

\* Host h is monitored and its reported state is st.
Reported(h, st) == IF h \in Hosts THEN state[h] = st ELSE FALSE

\* The rounds that can still be started within the exploration bound.
FutureRounds == IF seq = SeqMod - 1 THEN MaxRounds + 1 ELSE MaxRounds - seq

\* C19: once the channel is closed Run goes on: no reply is processed any
\* more, every round still ends at its deadline, every host without a
\* processed reply is timed out, and a host that was Up is reported Down:
\* eventually, and no later than when deadCount consecutive rounds have timed
\* it out.
C19_ClosedChannel ==
    /\ [](pc # "returned")
    /\ [][chClosed => (out'.kind # "reply" /\ credited' \subseteq credited)]_vars
    /\ [][\A h \in Hosts :
            (chClosed /\ pc = "eval" /\ h \in todo /\ h \notin todo' /\ h \notin credited)
                => (out'.kind = "timeout" /\ out'.host = h)]_vars
    /\ [](\A h \in Hosts :
            (chClosed /\ run[h].kind = "TimedOut" /\ run[h].len >= deadCount)
                => state[h] = "Down")
    /\ \A n \in SeqWindow :
            (chClosed /\ pc = "wait" /\ seq = n) ~> (pc = "sleep" /\ seq = n)
    /\ \A h \in PeerAddrs :
            (chClosed /\ Reported(h, "Up") /\ FutureRounds >= deadCount)
                ~> Reported(h, "Down")
\* C20: the single-host Pinger runs the bad action (declares the remote
\* dead) only when the last failCount pings all failed.
C20_DeadAfterConsecutiveFails ==
    pinger.act = "bad" => pinger.streak >= pinger.failCount
====
